---- MODULE Spec2Model ----
(***************************************************************************)
(* pathtrie: a path-compressed (radix) trie over byte strings              *)
(* (src/src/lib.rs, src/src/node.rs, src/src/lcp.rs) and the compact       *)
(* binary index written from it and read back (src/src/fst.rs).            *)
(*                                                                         *)
(* Byte strings are sequences of naturals.  A trie node is the record      *)
(*   [key |-> fragment, body |-> [tag, children, value]]                   *)
(* with tag "Children" (value unused, 0) or "Value" (children unused).     *)
(***************************************************************************)
EXTENDS Integers, Sequences, FiniteSets, TLC

VARIABLES
    root,       \* PathTrie.root
    hist,       \* history: key -> value of the last completed insert, 0 if none
    ninserts,   \* history: number of insert calls made so far
    panicked,   \* the program has aborted (panic!/unreachable!/expect/assert)
    last,       \* the last call made and what it returned
    data,       \* the bytes of the compact form (the reader's buffer)
    width,      \* size_of::<T>() of the PathTrie<T> written, 0 before write_fst
    fst,        \* what Fst::<T>::new returned, with its size_of::<T>()
    lcp         \* a call of find_common_prefix: its arguments and its result

vars == <<root, hist, ninserts, panicked, last, data, width, fst, lcp>>

(***************************************************************************)
(* Bounds of the model.                                                    *)
(***************************************************************************)
MaxByte == 2        \* key bytes are 1..MaxByte
MaxKeyLen == 2      \* inserted keys have at most this many bytes
MaxInserts == 4     \* insert calls per run
MaxFstInserts == 3  \* insert calls before write_fst, in runs that write
MaxBufLen == 5      \* length of the arbitrary buffers handed to Fst::new
MaxLongInserts == 2 \* insert calls before write_fst, in runs with long keys

Bytes == 1..MaxByte

RECURSIVE SeqsUpTo(_)
SeqsUpTo(n) ==
    IF n = 0 THEN {<< >>}
    ELSE SeqsUpTo(n - 1) \cup [1..n -> Bytes]

Keys == SeqsUpTo(MaxKeyLen)
\* keys looked up: one byte longer than any inserted key is possible
ProbeKeys == SeqsUpTo(MaxKeyLen + 1)

SetMin(S) == CHOOSE x \in S : \A y \in S : x <= y

\* F applied to the value of x, which is computed once
With(x, F(_)) == CHOOSE r \in {F(y) : y \in {x}} : TRUE

(***************************************************************************)
(* lcp.rs                                                                  *)
(***************************************************************************)
\* <[u8] as Ord>::cmp : lexicographic
SliceCmp(a, b) ==
    LET m == IF Len(a) < Len(b) THEN Len(a) ELSE Len(b)
        D == {i \in 1..m : a[i] # b[i]}
    IN  IF D # {}
        THEN (IF a[SetMin(D)] < b[SetMin(D)] THEN "Less" ELSE "Greater")
        ELSE IF Len(a) < Len(b) THEN "Less"
        ELSE IF Len(a) > Len(b) THEN "Greater"
        ELSE "Equal"

\* source.iter().zip(candidate.iter()).position(|(x, y)| x != y); -1 is None
ZipPosition(source, candidate) ==
    LET m == IF Len(source) < Len(candidate) THEN Len(source) ELSE Len(candidate)
        D == {i \in 1..m : source[i] # candidate[i]}
    IN  IF D = {} THEN -1 ELSE SetMin(D) - 1

NoMatch(o) == [tag |-> "NoMatch", n |-> 0, ord |-> o]
PerfectSubset(n) == [tag |-> "PerfectSubset", n |-> n, ord |-> "Equal"]
Divergent(n) == [tag |-> "Divergent", n |-> n, ord |-> "Equal"]
Incomplete(n) == [tag |-> "Incomplete", n |-> n, ord |-> "Equal"]
Exact == [tag |-> "Exact", n |-> 0, ord |-> "Equal"]

find_common_prefix(source, candidate) ==
    LET result == ZipPosition(source, candidate)
    IN  IF result = 0 THEN NoMatch(SliceCmp(source, candidate))
        ELSE IF result > 0 THEN Divergent(result)
        ELSE IF Len(source) # Len(candidate)
             THEN (IF Len(source) > Len(candidate)
                   THEN PerfectSubset(Len(candidate))
                   ELSE Incomplete(Len(source)))
        ELSE Exact

(***************************************************************************)
(* node.rs                                                                 *)
(***************************************************************************)
Children(cs) == [tag |-> "Children", children |-> cs, value |-> 0]
Value(v) == [tag |-> "Value", children |-> << >>, value |-> v]
Node(k, b) == [key |-> k, body |-> b]

\* &s[from..]  and  &s[..to]  (0-based, as in the source)
SliceFrom(s, from) == SubSeq(s, from + 1, Len(s))
SliceTo(s, to) == SubSeq(s, 1, to)

\* node.rs cmp: longer key first, equal lengths lexicographically
cmp(a, b) ==
    IF Len(b) = Len(a) THEN SliceCmp(a, b)
    ELSE IF Len(b) < Len(a) THEN "Less" ELSE "Greater"

\* impl Ord for Node: by key only
NodeLe(x, y) == cmp(x.key, y.key) # "Greater"

RemoveAt(s, i) == SubSeq(s, 1, i - 1) \o SubSeq(s, i + 1, Len(s))

\* children.sort_unstable(): the order of elements that compare equal is
\* unspecified, so the result is any ordered permutation of the list.
RECURSIVE sort_unstable(_)
sort_unstable(s) ==
    IF s = << >> THEN {<< >>}
    ELSE LET M == {i \in 1..Len(s) : \A j \in 1..Len(s) : NodeLe(s[i], s[j])}
         IN  UNION {{<<s[i]>> \o t : t \in sort_unstable(RemoveAt(s, i))} : i \in M}

\* Node::push on a node whose body is Children
PushChildren(n, x) ==
    {[n EXCEPT !.body = Children(s)] : s \in sort_unstable(Append(n.body.children, x))}

\* Node::convert_value_to_children (called on a Value-bodied node)
convert_value_to_children(n, key) ==
    PushChildren(Node(SliceTo(n.key, Len(n.key) - Len(key)), Children(<< >>)),
                 Node(key, n.body))

\* Node::push
push(n, x) ==
    IF n.body.tag = "Children" THEN PushChildren(n, x)
    ELSE UNION {PushChildren(m, x) : m \in convert_value_to_children(n, << >>)}

\* Node::get_mut(index) on a Children-bodied node; index is 0-based
get_mut(n, index) == n.body.children[index + 1]

SetChild(n, index, c) == [n EXCEPT !.body.children[index + 1] = c]

\* Node::diverge
diverge(self, index, partial, key, value) ==
    LET subnode == get_mut(self, index)
        key_prefix == SliceTo(key, partial)
        skey == SliceFrom(subnode.key, partial)
        S1 == IF subnode.body.tag = "Children"
              THEN PushChildren([subnode EXCEPT !.body = Children(<< >>)],
                                Node(skey, subnode.body))
              ELSE convert_value_to_children(subnode, skey)
        S2 == UNION {push(m, Node(SliceFrom(key, partial), Value(value))) : m \in S1}
        S3 == {[m EXCEPT !.key = key_prefix] : m \in S2}
    IN  UNION {{[self EXCEPT !.body = Children(cs)]
                  : cs \in sort_unstable(SetChild(self, index, m).body.children)}
               : m \in S3}

\* Node::set_value; panics ("set_value misused!") on a Children body
set_value_panics(n) == n.body.tag = "Children"
set_value(n, value) == [n EXCEPT !.body = Value(value)]

\* NodeBody::assert_value; panics on a Children body
assert_value_panics(b) == b.tag = "Children"

(***************************************************************************)
(* lib.rs: the trie                                                        *)
(***************************************************************************)
\* PathTrie::new
NewTrie == Node(<< >>, Children(<< >>))

\* PathTrie::find_prefix: (Option<usize>, Prefix); result -1 is None.
\* `prefix` is what the last evaluated closure call left in it.
find_prefix(key, node) ==
    IF node.body.tag = "Value" THEN [result |-> -1, prefix |-> NoMatch("Equal")]
    ELSE LET cs == node.body.children
             M == {i \in 1..Len(cs) : find_common_prefix(cs[i].key, key).tag # "NoMatch"}
         IN  IF M # {}
             THEN [result |-> SetMin(M) - 1,
                   prefix |-> find_common_prefix(cs[SetMin(M)].key, key)]
             ELSE IF cs = << >>
             THEN [result |-> -1, prefix |-> NoMatch("Equal")]
             ELSE [result |-> -1, prefix |-> find_common_prefix(cs[Len(cs)].key, key)]

Done(n) == [node |-> n, panic |-> FALSE]
Abort(n) == [node |-> n, panic |-> TRUE]

\* a variant that shortens the child and stores the value, and forgets to
\* push the old body under the rest of the fragment
InsertPerfectSubsetNoPush(node, i, partial, value) ==
    {Done(SetChild(node, i, Node(SliceTo(get_mut(node, i).key, partial), Value(value))))}

\* The PerfectSubset arm of insert_inner (lib.rs 288-297)
InsertPerfectSubset(node, i, partial, value) ==
    LET child == get_mut(node, i)
        prefix_key == SliceTo(child.key, partial)
        tail == SliceFrom(child.key, partial)
        \* key shortened, body swapped for Value(value)
        c1 == Node(prefix_key, Value(value))
    IN  {Done(SetChild(node, i, c2)) : c2 \in push(c1, Node(tail, child.body))}

\* PathTrie::insert_inner: the set of outcomes [node, panic]
RECURSIVE insert_inner(_, _, _)
insert_inner(node, key, value) ==
    LET fp == find_prefix(key, node)
        i == fp.result
        p == fp.prefix
    IN  IF i = -1 /\ p.tag = "NoMatch"
        THEN {Done(m) : m \in push(node, Node(key, Value(value)))}
        ELSE IF i # -1 /\ p.tag = "Incomplete" /\ p.n = 0
        THEN {Done(m) : m \in push(node, Node(key, Value(value)))}
        ELSE IF i # -1 /\ p.tag = "Incomplete"
        THEN {[node |-> SetChild(node, i, r.node), panic |-> r.panic]
                : r \in insert_inner(get_mut(node, i), SliceFrom(key, p.n), value)}
        ELSE IF i # -1 /\ p.tag = "PerfectSubset"
        THEN InsertPerfectSubset(node, i, p.n, value)
        ELSE IF i # -1 /\ p.tag = "Divergent"
        THEN {Done(m) : m \in diverge(node, i, p.n, key, value)}
        ELSE IF i # -1 /\ p.tag = "Exact"
        THEN (IF set_value_panics(get_mut(node, i))
              THEN {Abort(node)}
              ELSE {Done(SetChild(node, i, set_value(get_mut(node, i), value)))})
        ELSE {Abort(node)}   \* unreachable!()

None == [tag |-> "None", value |-> 0]
Some(v) == [tag |-> "Some", value |-> v]
Panic == [tag |-> "Panic", value |-> 0]

\* Option<&Node>: "None", "Panic" (unreachable!) or [tag |-> "Node", node |-> n]
SomeNode(n) == [tag |-> "Node", node |-> n]
NoNode == [tag |-> "None", node |-> NewTrie]
PanicNode == [tag |-> "Panic", node |-> NewTrie]

\* a variant that forgets the filter: children.last()
LastUnfiltered(cs) ==
    IF cs # << >> THEN [tag |-> "Node", node |-> cs[Len(cs)]]
    ELSE [tag |-> "None", node |-> NewTrie]

\* children.last().filter(|x| x.key.is_empty())  (lib.rs 330)
LastIfEmpty(cs) ==
    IF cs # << >> /\ cs[Len(cs)].key = << >> THEN SomeNode(cs[Len(cs)]) ELSE NoNode

\* PathTrie::walk
RECURSIVE walk(_, _)
walk(key, node) ==
    LET fp == find_prefix(key, node)
        i == fp.result
        p == fp.prefix
    IN  IF i # -1 /\ p.tag = "Exact" /\ node.body.tag = "Children"
        THEN LET c == get_mut(node, i)
             IN  IF c.body.tag = "Children"
                 THEN LastIfEmpty(c.body.children)
                 ELSE SomeNode(c)
        ELSE IF i # -1 /\ p.tag = "Incomplete" /\ node.body.tag = "Children"
        THEN walk(SliceFrom(key, p.n), get_mut(node, i))
        ELSE IF p.tag \in {"NoMatch", "Divergent", "PerfectSubset"}
        THEN NoNode
        ELSE PanicNode   \* unreachable!()

\* PathTrie::get_node
get_node(trie, key) == walk(key, trie)

\* PathTrie::get
get(trie, key) ==
    LET r == get_node(trie, key)
    IN  IF r.tag = "Panic" THEN Panic
        ELSE IF r.tag = "None" THEN None
        ELSE IF r.node.body.tag = "Children"
        THEN LET cs == r.node.body.children
             IN  IF cs # << >> /\ cs[1].key = << >>
                 THEN (IF assert_value_panics(cs[1].body) THEN Panic
                       ELSE Some(cs[1].body.value))
                 ELSE None
        ELSE Some(r.node.body.value)

\* Entries: the items the iterator yields for `node`, in order
RECURSIVE EntriesOf(_)
RECURSIVE EntriesOfList(_, _)
EntriesOfList(k, cs) ==
    IF cs = << >> THEN << >>
    ELSE LET sub == EntriesOf(cs[1])
         IN  [j \in 1..Len(sub) |-> <<k \o sub[j][1], sub[j][2]>>]
             \o EntriesOfList(k, Tail(cs))
EntriesOf(node) ==
    IF node.body.tag = "Children"
    THEN EntriesOfList(node.key, node.body.children)
    ELSE << <<node.key, node.body.value>> >>

\* PathTrie::entries
entries(trie) == EntriesOf(trie)

\* RawEntries: the items the iterator yields for `node`, in order: first
\* every child of the node, then the items of each child in turn.
RECURSIVE RawEntriesOf(_, _, _)
RECURSIVE RawEntriesOfList(_, _, _)
RawEntriesOfList(cs, parent, depth) ==
    IF cs = << >> THEN << >>
    ELSE RawEntriesOf(cs[1], parent, depth) \o RawEntriesOfList(Tail(cs), parent, depth)
RawEntriesOf(node, parent, depth) ==
    IF node.body.tag = "Children"
    THEN LET cs == node.body.children
             p == parent \o node.key
         IN  [j \in 1..Len(cs) |->
                [node |-> cs[j], parent |-> p, depth |-> depth, ty |-> "Child"]]
             \o RawEntriesOfList(cs, p, depth + 1)
    ELSE << >>

\* PathTrie::raw_entries
raw_entries(trie) == RawEntriesOf(trie, << >>, 0)

(***************************************************************************)
(* Memory layout of the compact form (fst.rs 147-187)                      *)
(***************************************************************************)
Widths == {1, 2, 4, 8, 16}       \* size_of::<T>() for u8, u16, u32, u64, u128
HEADER_SIZE == 4                 \* size_of::<fst::Header>()
NodeOffsetSize == 4              \* size_of::<fst::NodeOffset>(), always a u32
KeyLenMax == 255                 \* u8::MAX
VERSION == 0

RoundUp(n, a) == ((n + a - 1) \div a) * a
\* repr(C) struct Node<T> { next_node: NodeOffset, raw_value: T }, T aligned to
\* its size
NodeAlign(W) == IF W > NodeOffsetSize THEN W ELSE NodeOffsetSize
RawValueOffset(W) == RoundUp(NodeOffsetSize, W)
NODE_SIZE(W) == RoundUp(RawValueOffset(W) + W, NodeAlign(W))

RECURSIVE Pow256(_)
Pow256(n) == IF n = 0 THEN 1 ELSE 256 * Pow256(n - 1)

\* Integers of the model are below 2^31: four bytes hold them, a longer
\* little-endian field has zeros above, and a field read back that is not
\* below 2^31 is reported as Huge = 2^31 - 1.
Huge == 127 * Pow256(3) + (Pow256(3) - 1)

\* to_le_bytes of an integer of w bytes
LeBytes(n, w) == [j \in 1..w |-> IF j > 4 THEN 0 ELSE (n \div Pow256(j - 1)) % 256]
\* T::try_from(n: u64) succeeds for a T of w bytes
FitsIn(n, w) == w >= 4 \/ n < Pow256(w)
Zeros(n) == [j \in 1..n |-> 0]
Fill(n, b) == [j \in 1..n |-> b]

(***************************************************************************)
(* lib.rs: write_fst on a Cursor<Vec<u8>>                                  *)
(***************************************************************************)
\* Cursor::write_all at position pos: overwrite, then extend
WriteAt(buf, pos, bytes) ==
    SubSeq(buf, 1, pos)
    \o SubSeq(Zeros(pos), Len(buf) + 1, pos)
    \o bytes
    \o SubSeq(buf, pos + Len(bytes) + 1, Len(buf))

write_all(ws, bytes) ==
    With(<<ws, bytes>>, LAMBDA a :
        [a[1] EXCEPT !.buf = WriteAt(a[1].buf, a[1].pos, a[2]),
                     !.pos = a[1].pos + Len(a[2])])

\* 373-384: a new parent starts a new run: write a blank entry first
StartRun(ws, entry, W) ==
    IF ws.current_parent # entry.parent
    THEN [write_all(ws, Zeros(NODE_SIZE(W))) EXCEPT !.current_parent = entry.parent]
    ELSE ws

\* 386-392: wip_offsets.insert(wip_key, position)
InsertWip(w1, entry) ==
    [w1 EXCEPT !.wip = ((w1.current_parent \o entry.node.key) :> w1.pos) @@ w1.wip]

\* 395-418: back-patch the parent's next_node field when the parent is pending
BackPatch(w2, W) ==
    IF w2.current_parent \in DOMAIN w2.wip
    THEN [w2 EXCEPT
            !.wip = [q \in (DOMAIN w2.wip) \ {w2.current_parent} |-> w2.wip[q]],
            !.buf = WriteAt(w2.buf, w2.wip[w2.current_parent], LeBytes(w2.pos, W))]
    ELSE w2

\* 429-455: the next_node field, then the value of a Value node
WriteOffsetAndValue(w3, entry, W) ==
    IF entry.node.body.tag = "Children"
    THEN write_all(w3, Zeros(NodeOffsetSize))
    ELSE write_all(write_all(w3, Fill(NodeOffsetSize, 255)),
                   LeBytes(entry.node.body.value, W))

\* 458-465: the key length and the key
WriteKey(w4, entry) ==
    write_all(write_all(w4, <<Len(entry.node.key)>>), entry.node.key)

\* 472-476: bytes_until_aligned zeros
WritePadding(w5, W) == write_all(w5, Zeros(W - (w5.pos % W)))

\* history of the run: where the record of this entry lies, whether a blank
\* entry was written before it, which field was back-patched and which bytes
\* outside that field the back-patch changed
RecordOf(ws, w1, w2, w3, w5, w6, entry) ==
    [off |-> w1.pos, end |-> w6.pos, unpadded |-> w5.pos - w1.pos,
     blank |-> IF ws.current_parent # entry.parent THEN ws.pos ELSE -1,
     node |-> entry.node, parent |-> entry.parent,
     patch |-> IF w2.current_parent \in DOMAIN w2.wip
               THEN w2.wip[w2.current_parent] ELSE -1,
     clobber |-> IF w2.current_parent \in DOMAIN w2.wip
                 THEN {j \in 1..Len(w3.buf) :
                         /\ (j > Len(w2.buf) \/ w3.buf[j] # w2.buf[j])
                         /\ ~(j - 1 - w2.wip[w2.current_parent]
                                \in 0..(NodeOffsetSize - 1))}
                 ELSE {}]

\* the body of the `for entry in self.raw_entries()` loop (lib.rs 364-483)
WriteEntry(ws0, entry, W) ==
    With(ws0, LAMBDA ws :
    With(StartRun(ws, entry, W), LAMBDA w1 :
    With(InsertWip(w1, entry), LAMBDA w2 :
    With(BackPatch(w2, W), LAMBDA w3 :
    With(WriteKey(WriteOffsetAndValue(w3, entry, W), entry), LAMBDA w5 :
    With(WritePadding(w5, W), LAMBDA w6 :
        LET tooLarge == w2.current_parent \in DOMAIN w2.wip /\ ~FitsIn(w2.pos, W)
            \* 422-427
            tooLong == Len(entry.node.key) > KeyLenMax
        IN  IF tooLarge \/ tooLong \/ w6.pos % W # 0
            THEN [ws EXCEPT !.panic = TRUE]
            ELSE [w6 EXCEPT !.log = Append(ws.log, RecordOf(ws, w1, w2, w3, w5, w6, entry))]))))))

RECURSIVE WriteEntries(_, _, _)
WriteEntries(ws0, es, W) ==
    With(ws0, LAMBDA ws :
        IF es = << >> \/ ws.panic THEN ws
        ELSE WriteEntries(WriteEntry(ws, es[1], W), Tail(es), W))

\* PathTrie::<T>::write_fst with size_of::<T>() = W: [buf, panic] and the
\* history of the run: the records written and where the final blank entry is
write_fst(trie, W) ==
    With([buf |-> << >>, pos |-> 0, current_parent |-> << >>,
          wip |-> [q \in {} |-> 0], panic |-> FALSE, log |-> << >>], LAMBDA w0 :
    \* 356-361
    With(write_all(w0, Zeros(HEADER_SIZE)), LAMBDA w1 :
    With(write_all(w1, Zeros(w1.pos % W)), LAMBDA w2 :
    With(WriteEntries(w2, raw_entries(trie), W), LAMBDA w3 :
    \* 484-492
    With(write_all(w3, Zeros(NODE_SIZE(W))), LAMBDA w4 :
        IF w3.panic THEN [buf |-> w3.buf, panic |-> TRUE, log |-> w3.log, last |-> w3.pos]
        ELSE [buf |-> WriteAt(w4.buf, 0, <<255, 223, VERSION, W>>), panic |-> FALSE,
              log |-> w3.log, last |-> w3.pos])))))

(***************************************************************************)
(* fst.rs: the reader.  Offsets are byte offsets from the start of the     *)
(* buffer, whose base address is aligned for every T (a memory map).       *)
(***************************************************************************)
\* a variant that checks the alignment byte before the magic bytes
FstNewAlignmentFirst(buf, W) ==
    IF Len(buf) < HEADER_SIZE THEN [tag |-> "TooSmall", a |-> << >>, b |-> 0]
    ELSE IF buf[4] # W % 256
    THEN [tag |-> "InvalidAlignment", a |-> <<buf[4]>>, b |-> W]
    ELSE IF <<buf[1], buf[2]>> # <<255, 223>>
    THEN [tag |-> "InvalidMagicBytes", a |-> <<buf[1], buf[2]>>, b |-> 0]
    ELSE [tag |-> "Ok", a |-> << >>, b |-> 0]

\* Fst::<T>::new with size_of::<T>() = W
FstNew(buf, W) ==
    IF Len(buf) < HEADER_SIZE THEN [tag |-> "TooSmall", a |-> << >>, b |-> 0]
    ELSE IF <<buf[1], buf[2]>> # <<255, 223>>
    THEN [tag |-> "InvalidMagicBytes", a |-> <<buf[1], buf[2]>>, b |-> 0]
    ELSE IF buf[4] # W % 256
    THEN [tag |-> "InvalidAlignment", a |-> <<buf[4]>>, b |-> W]
    ELSE [tag |-> "Ok", a |-> << >>, b |-> 0]

InBounds(buf, p, n) == p >= 0 /\ p + n <= Len(buf)
\* n bytes at byte offset p
BytesAt(buf, p, n) == [j \in 1..n |-> buf[p + j]]
\* from_le_bytes
FromLe(bs) ==
    IF \E j \in 1..Len(bs) : (j > 4 /\ bs[j] # 0) \/ (j = 4 /\ bs[j] > 127) THEN Huge
    ELSE LET n == IF Len(bs) < 4 THEN Len(bs) ELSE 4
             RECURSIVE Sum(_)
             Sum(j) == IF j > n THEN 0 ELSE bs[j] + 256 * Sum(j + 1)
         IN  Sum(1)

\* NodeOffset::get on the node at p
OffsetKind(buf, p) ==
    LET bs == BytesAt(buf, p, NodeOffsetSize)
    IN  IF bs = Zeros(NodeOffsetSize) THEN [kind |-> "Empty", off |-> 0]
        ELSE IF bs = Fill(NodeOffsetSize, 255) THEN [kind |-> "Terminating", off |-> 0]
        ELSE [kind |-> "Offset", off |-> FromLe(bs)]

\* where Node::value and Node::len read the key length of the node at p
KeyLenPos(buf, p, W) ==
    IF OffsetKind(buf, p).kind = "Terminating" THEN p + NodeOffsetSize + W
    ELSE p + NodeOffsetSize

\* the bytes of the buffer that Node::value / Node::len touch for the node
\* at p all lie inside the buffer
NodeReadable(buf, p, W) ==
    /\ InBounds(buf, p, NodeOffsetSize)
    /\ OffsetKind(buf, p).kind # "Empty" =>
         /\ InBounds(buf, KeyLenPos(buf, p, W), 1)
         /\ InBounds(buf, KeyLenPos(buf, p, W) + 1, buf[KeyLenPos(buf, p, W) + 1])
    /\ OffsetKind(buf, p).kind = "Terminating" =>
         InBounds(buf, p + RawValueOffset(W), W)

\* Node::value: Value::None, Value::Key(key) or Value::Final(key, raw_value)
NodeValue(buf, p, W) ==
    LET k == OffsetKind(buf, p).kind
        lp == KeyLenPos(buf, p, W)
    IN  IF k = "Empty" THEN [kind |-> "None", key |-> << >>, value |-> 0]
        ELSE IF k = "Offset"
        THEN [kind |-> "Key", key |-> BytesAt(buf, lp + 1, buf[lp + 1]), value |-> 0]
        ELSE [kind |-> "Final", key |-> BytesAt(buf, lp + 1, buf[lp + 1]),
              value |-> FromLe(BytesAt(buf, p + RawValueOffset(W), W))]

\* Node::len
NodeLen(buf, p, W) ==
    LET k == OffsetKind(buf, p).kind
        len == buf[KeyLenPos(buf, p, W) + 1]
        unaligned == IF k = "Offset" THEN NodeOffsetSize + 1 + len
                     ELSE NodeOffsetSize + W + 1 + len
        padding == W - (unaligned % W)
    IN  IF k = "Empty" THEN NODE_SIZE(W) ELSE unaligned + padding

\* Fst::node_at: the assertions on align_to, then the address of the node
node_at_panics(buf, W) == Len(buf) % W # 0
node_at(offset, W) == (offset \div W) * W

\* Fst::node_after
node_after(buf, p, W) == p + NodeLen(buf, p, W)

\* What one lookup does.  "UB" is a read outside the buffer; "Hang" is a
\* walk that comes back to a state it was in; `misaligned` records that a
\* node reference was formed at an address that is not a multiple of
\* align_of::<Node<T>>().
FstRes(tag, v, m) == [tag |-> tag, value |-> v, misaligned |-> m]

RECURSIVE FstLoop(_, _, _, _, _, _)
FstLoop(buf, W, p, key, seen, m) ==
    LET m1 == m \/ (p % NodeAlign(W) # 0)
    IN  IF <<p, key>> \in seen THEN FstRes("Hang", 0, m1)
        ELSE IF ~NodeReadable(buf, p, W) THEN FstRes("UB", 0, m1)
        ELSE
        LET nv == NodeValue(buf, p, W)
            ok == OffsetKind(buf, p)
            seen1 == seen \cup {<<p, key>>}
            cp == find_common_prefix(nv.key, key)
        IN  IF nv.kind = "None" THEN FstRes("None", 0, m1)
            ELSE IF cp.tag \in {"NoMatch", "PerfectSubset", "Divergent"}
            THEN FstLoop(buf, W, node_after(buf, p, W), key, seen1, m1)
            ELSE LET key1 == IF cp.tag = "Incomplete" THEN SliceFrom(key, cp.n) ELSE << >>
                 IN  IF nv.kind = "Final" THEN FstRes("Some", nv.value, m1)
                     ELSE IF node_at_panics(buf, W) THEN FstRes("Panic", 0, m1)
                     ELSE FstLoop(buf, W, node_at(ok.off, W), key1, seen1, m1)

\* Fst::get
FstGet(buf, W, key) ==
    LET start_offset == HEADER_SIZE + (HEADER_SIZE % W)
    IN  IF node_at_panics(buf, W) THEN FstRes("Panic", 0, FALSE)
        ELSE FstLoop(buf, W, node_at(start_offset, W), key, {}, FALSE)

(***************************************************************************)
(* The trie as a state machine: insert and get calls on one PathTrie.      *)
(***************************************************************************)
NoCall == [op |-> "none", key |-> << >>, res |-> None, had |-> None, count |-> 0]
NotOpened == [tag |-> "NotOpened", a |-> << >>, b |-> 0, W |-> 0]
NotCalled == [tag |-> "NotCalled", n |-> 0, ord |-> "Equal"]
NoLcp == [source |-> << >>, candidate |-> << >>, result |-> NotCalled]

\* no call has aborted or failed to return
Running == ~panicked /\ last.res.tag # "Hang"

Init ==
    /\ root = NewTrie
    /\ hist = [k \in Keys |-> 0]
    /\ ninserts = 0
    /\ panicked = FALSE
    /\ last = NoCall
    /\ data = << >>
    /\ width = 0
    /\ fst = NotOpened
    /\ lcp = NoLcp

\* trie.insert(key, value); the n-th call inserts the value n, as the tests do.
\* `had` and `count` record get(key) and entries().count() before the call.
Insert(key) ==
    /\ Running
    /\ width = 0
    /\ ninserts < MaxInserts
    /\ \E r \in insert_inner(root, key, ninserts + 1) :
         /\ root' = r.node
         /\ panicked' = r.panic
         /\ hist' = IF r.panic \/ key \notin DOMAIN hist THEN hist
                    ELSE [hist EXCEPT ![key] = ninserts + 1]
         /\ last' = [op |-> "insert", key |-> key,
                     res |-> IF r.panic THEN Panic ELSE Some(ninserts + 1),
                     had |-> get(root, key), count |-> Len(entries(root))]
    /\ ninserts' = ninserts + 1
    /\ UNCHANGED <<data, width, fst, lcp>>

\* trie.get(key)
Get(key) ==
    /\ Running
    /\ width = 0
    /\ last' = [op |-> "get", key |-> key, res |-> get(root, key),
                had |-> None, count |-> 0]
    /\ panicked' = (get(root, key).tag = "Panic")
    /\ UNCHANGED <<root, hist, ninserts, data, width, fst, lcp>>

\* trie.write_fst(&mut Cursor::new(vec![])) on a PathTrie<T>, size_of::<T>() = W
WriteFst(W) ==
    /\ Running
    /\ width = 0
    /\ LET r == write_fst(root, W)
       IN  /\ data' = r.buf
           /\ panicked' = r.panic
           /\ last' = [op |-> "write_fst", key |-> << >>,
                       res |-> IF r.panic THEN Panic ELSE Some(0),
                       had |-> None, count |-> 0]
    /\ width' = W
    /\ UNCHANGED <<root, hist, ninserts, fst, lcp>>

\* Fst::<T>::new(data), size_of::<T>() = W
Open(W) ==
    /\ Running
    /\ fst = NotOpened
    /\ LET r == FstNew(data, W)
       IN  fst' = [tag |-> r.tag, a |-> r.a, b |-> r.b, W |-> W]
    /\ last' = [op |-> "fst_new", key |-> << >>, res |-> None, had |-> None, count |-> 0]
    /\ UNCHANGED <<root, hist, ninserts, panicked, data, width, lcp>>

\* What a build can do for a lookup: a read outside the buffer is undefined
\* behaviour, a misaligned node reference is undefined behaviour that a build
\* with debug assertions turns into a panic.
FstOutcomes(r) ==
    IF r.tag = "UB"
    THEN {None, Panic} \cup {Some(v) : v \in 0..MaxInserts}
    ELSE {[tag |-> r.tag, value |-> r.value]}
         \cup (IF r.misaligned THEN {Panic} ELSE {})

\* fst.get(key)
FstGetCall(key) ==
    /\ Running
    /\ fst.tag = "Ok"
    /\ \E res \in FstOutcomes(FstGet(data, fst.W, key)) :
         /\ last' = [op |-> "fst_get", key |-> key, res |-> res,
                     had |-> None, count |-> 0]
         /\ panicked' = (res.tag = "Panic")
    /\ UNCHANGED <<root, hist, ninserts, data, width, fst, lcp>>

InsertAny == \E key \in Keys : Insert(key)
GetAny == \E key \in ProbeKeys : Get(key)

Next == InsertAny \/ GetAny

\* insert and get calls on one trie
Spec == Init /\ [][Next]_vars

InsertFewAny == ninserts < MaxFstInserts /\ \E key \in Keys : Insert(key)
WriteFstAny == \E W \in Widths : WriteFst(W)
OpenWrittenAny == width # 0 /\ \E W \in Widths : Open(W)
FstGetAny == \E key \in ProbeKeys : FstGetCall(key)

NextFst == InsertFewAny \/ WriteFstAny \/ OpenWrittenAny \/ FstGetAny

\* a trie is built, written, opened and queried
SpecFst == Init /\ [][NextFst]_vars

\* bytes that matter to Fst::new, and one that does not
HeaderBytes == {0, 1, 2, 4, 223, 255}
Buffers == UNION {[1..n -> HeaderBytes] : n \in 0..MaxBufLen}

InitOpen ==
    /\ root = NewTrie
    /\ hist = [k \in Keys |-> 0]
    /\ ninserts = 0
    /\ panicked = FALSE
    /\ last = NoCall
    /\ data \in Buffers
    /\ width = 0
    /\ fst = NotOpened
    /\ lcp = NoLcp

OpenAny == \E W \in Widths : Open(W)

\* Fst::new on an arbitrary buffer
SpecOpen == InitOpen /\ [][OpenAny]_vars

\* keys of u8::MAX and of u8::MAX + 1 bytes
LongKeys == {Fill(KeyLenMax, 1), Fill(KeyLenMax + 1, 1)}

InsertLongAny ==
    ninserts < MaxLongInserts /\ \E key \in Keys \cup LongKeys : Insert(key)

NextLong == InsertLongAny \/ WriteFstAny

\* a trie with long keys is built and written
SpecLong == Init /\ [][NextLong]_vars

InitLcp ==
    /\ root = NewTrie
    /\ hist = [k \in Keys |-> 0]
    /\ ninserts = 0
    /\ panicked = FALSE
    /\ last = NoCall
    /\ data = << >>
    /\ width = 0
    /\ fst = NotOpened
    /\ lcp \in [source : ProbeKeys, candidate : ProbeKeys, result : {NotCalled}]

\* find_common_prefix(source, candidate)
Classify ==
    /\ lcp.result = NotCalled
    /\ lcp' = [lcp EXCEPT !.result = find_common_prefix(lcp.source, lcp.candidate)]
    /\ UNCHANGED <<root, hist, ninserts, panicked, last, data, width, fst>>

\* find_common_prefix on arbitrary byte strings
SpecLcp == InitLcp /\ [][Classify]_vars

(***************************************************************************)
(* Properties                                                              *)
(***************************************************************************)

\* C1: after any sequence of insert calls, every key that was inserted is
\* found by get with the value of its last insert.
C1_LastInsertWins ==
    \A k \in Keys : hist[k] # 0 => get(root, k) = Some(hist[k])

\* C2: an insert of a key that already has a value overwrites it: the call
\* completes, get then returns the new value, and entries() has as many
\* items as before the call.
C2_OverwriteKeepsCount ==
    (last.op = "insert" /\ last.had.tag = "Some") =>
        /\ last.res.tag = "Some"
        /\ get(root, last.key) = last.res
        /\ Len(entries(root)) = last.count

\* C3: no insert call and no get call aborts.
C3_Infallible ==
    last.op \in {"insert", "get"} => last.res.tag # "Panic"

\* C4: get returns None for every key that no insert call has stored,
\* whether it is a proper prefix of a stored key, ends at an interior node,
\* extends a stored key or diverges from all of them.
C4_AbsentKeysNone ==
    \A k \in ProbeKeys : (k \notin Keys \/ hist[k] = 0) => get(root, k) = None

\* C4 witness: a get of a key never inserted that ends exactly at an interior
\* child of the root has returned None, while a longer probe extends a leaf.
C4_Witness ==
    /\ last.op = "get" /\ last.res = None
    /\ last.key \in Keys /\ hist[last.key] = 0
    /\ \E j \in 1..Len(root.body.children) :
         /\ root.body.children[j].key = last.key
         /\ root.body.children[j].body.tag = "Children"
    /\ \E k \in Keys : hist[k] # 0 /\ Len(k) = MaxKeyLen
                       /\ get(root, Append(k, 1)) = None

\* C5: for every width, write_fst succeeds, Fst::new on the bytes succeeds,
\* and the reader returns for every inserted key what the trie returns: the
\* value of its last insert.
C5_RoundTripStored ==
    /\ last.op = "write_fst" => last.res.tag = "Some"
    /\ (fst # NotOpened /\ fst.W = width) => fst.tag = "Ok"
    /\ (last.op = "fst_get" /\ last.key \in Keys /\ hist[last.key] # 0) =>
          /\ last.res = Some(hist[last.key])
          /\ last.res = get(root, last.key)

\* C6: the reader returns None for every key for which the trie returns
\* None (here for the width the tests use, 4 bytes); a terminal record whose
\* fragment is a proper prefix of the remaining key does not answer.
C6_ReaderNoneForAbsent ==
    (width = 4 /\ last.op = "fst_get" /\ get(root, last.key) = None) =>
        last.res = None

\* every node of the trie below and including n
RECURSIVE NodesOf(_)
NodesOf(n) ==
    {n} \cup UNION {NodesOf(n.body.children[j]) : j \in 1..Len(n.body.children)}

\* C7: after every insert the child list of every node is in canonical
\* order: fragments by descending length, equal lengths ascending.
C7_ChildrenSorted ==
    \A n \in NodesOf(root) : \A j \in 1..(Len(n.body.children) - 1) :
        cmp(n.body.children[j].key, n.body.children[j + 1].key) # "Greater"

\* C8: no two children of a node have fragments that start with the same
\* byte.
C8_SiblingsDisjoint ==
    \A n \in NodesOf(root) : \A i, j \in 1..Len(n.body.children) :
        LET a == n.body.children[i].key
            b == n.body.children[j].key
        IN  (i # j /\ a # << >> /\ b # << >>) => a[1] # b[1]

\* C9: Fst::new reports TooSmall for a buffer shorter than the header, else
\* InvalidMagicBytes with the first two bytes when they are not FF DF, else
\* InvalidAlignment(found, W) when byte 3 differs from W.
C9_OpenErrors ==
    fst # NotOpened =>
        /\ Len(data) < 4 => fst.tag = "TooSmall"
        /\ (Len(data) >= 4 /\ <<data[1], data[2]>> # <<255, 223>>) =>
              /\ fst.tag = "InvalidMagicBytes"
              /\ fst.a = <<data[1], data[2]>>
        /\ (Len(data) >= 4 /\ <<data[1], data[2]>> = <<255, 223>> /\ data[4] # fst.W) =>
              /\ fst.tag = "InvalidAlignment"
              /\ fst.a = <<data[4]>>
              /\ fst.b = fst.W
        /\ (data = << >> => fst.tag = "TooSmall")
        /\ (data = <<0, 0, 0, 4>> => fst.tag = "InvalidMagicBytes" /\ fst.a = <<0, 0>>)
        /\ (data = <<255, 223, 0, 2>> /\ fst.W = 4 =>
              fst.tag = "InvalidAlignment" /\ fst.a = <<2>> /\ fst.b = 4)

\* C9 witness: a buffer with wrong magic bytes and a wrong alignment byte has
\* been reported as InvalidMagicBytes.
C9_Witness ==
    /\ Len(data) >= 4
    /\ <<data[1], data[2]>> # <<255, 223>>
    /\ fst # NotOpened /\ data[4] # fst.W
    /\ fst.tag = "InvalidMagicBytes"

\* C10: Fst::new accepts a buffer only if its version byte (offset 2) is 0.
C10_VersionChecked ==
    fst.tag = "Ok" => data[3] = 0

\* C11: write_fst on a trie with a fragment longer than 255 bytes returns
\* the error KeyTooLong to its caller and does not abort.
C11_KeyTooLongReturned ==
    (last.op = "write_fst" /\ \E n \in NodesOf(root) : Len(n.key) > KeyLenMax) =>
        /\ ~panicked
        /\ last.res.tag = "KeyTooLong"

\* the history of the write_fst call that has just returned
Written == write_fst(root, width)

\* C12: in the bytes write_fst emits, for every width, every record (the
\* first one, every child or value record, every blank entry) starts at an
\* offset that is a multiple of the width.
C12_RecordsAligned ==
    (last.op = "write_fst" /\ ~panicked) =>
        /\ \A i \in 1..Len(Written.log) :
             /\ Written.log[i].off % width = 0
             /\ Written.log[i].blank # -1 => Written.log[i].blank % width = 0
        /\ Written.last % width = 0

\* C13: every child or value record write_fst emits, and the step Node::len
\* makes the reader take over it, is W (next_offset) + W if the record holds
\* a value + 1 (key_len) + key_len bytes long, rounded up to a multiple of W:
\* no padding when that sum is a multiple of W already.
C13_RecordLength ==
    (last.op = "write_fst" /\ ~panicked) =>
        \A i \in 1..Len(Written.log) :
            LET e == Written.log[i]
                claimed == RoundUp(width + (IF e.node.body.tag = "Value" THEN width ELSE 0)
                                     + 1 + Len(e.node.key), width)
            IN  /\ e.end - e.off = claimed
                /\ NodeLen(data, e.off, width) = claimed

\* C14: find_common_prefix(x, y) is NoMatch(ord) exactly when x and y share
\* no non-empty common prefix, the case of one empty and one non-empty
\* string included, and ord is then the lexicographic order of x against y.
C14_NoMatchLaw ==
    (lcp.result # NotCalled /\ (lcp.source # << >> \/ lcp.candidate # << >>)) =>
        LET x == lcp.source
            y == lcp.candidate
            shares == x # << >> /\ y # << >> /\ x[1] = y[1]
        IN  /\ (lcp.result.tag = "NoMatch") <=> ~shares
            /\ lcp.result.tag = "NoMatch" =>
                 /\ lcp.result.ord = (IF x = y THEN "Equal"
                                      ELSE IF SliceCmp(x, y) = "Less" THEN "Less"
                                      ELSE "Greater")
                 /\ lcp.result.ord # "Equal"

\* C15: after any sequence of completed inserts entries() yields exactly one
\* pair per distinct inserted key: as many pairs as distinct keys, every
\* yielded key an inserted key, every yielded value the one get returns for
\* that key; an insert of an absent key adds exactly one pair.
C15_EntriesExact ==
    ~panicked =>
        LET es == entries(root)
        IN  /\ Len(es) = Cardinality({k \in Keys : hist[k] # 0})
            /\ \A j \in 1..Len(es) :
                 /\ es[j][1] \in Keys
                 /\ hist[es[j][1]] # 0
                 /\ get(root, es[j][1]) = Some(es[j][2])
            /\ (last.op = "insert" /\ last.had = None) => Len(es) = last.count + 1

\* C16: for a trie without inserts write_fst succeeds and emits the header,
\* the padding up to the next multiple of the width and one blank entry;
\* Fst::new accepts the bytes; Fst::get returns None for every key.
C16_EmptyTrie ==
    (ninserts = 0 /\ width # 0) =>
        /\ ~panicked
        /\ Written.log = << >>
        /\ data = <<255, 223, VERSION, width>> \o Zeros(Len(data) - HEADER_SIZE)
        /\ Len(data) = RoundUp(HEADER_SIZE, width) + NODE_SIZE(width)
        /\ (fst # NotOpened /\ fst.W = width) => fst.tag = "Ok"
        /\ last.op = "fst_get" => last.res = None

\* C17: on the bytes write_fst produced, Fst::get returns Some or None for
\* every key: it reads no byte outside the buffer, forms no misaligned node
\* reference, does not abort and does not walk in a circle.
C17_GetTotal ==
    last.op = "fst_get" =>
        LET r == FstGet(data, fst.W, last.key)
        IN  /\ r.tag \in {"Some", "None"}
            /\ ~r.misaligned
            /\ last.res = [tag |-> r.tag, value |-> r.value]

\* C18: when write_fst returns, the record of every Children node holds in
\* its next_offset field the offset of the first record of the node's own
\* child run, greater than its own offset; no back-patch has changed a byte
\* outside a next_offset field; the record of every Value node holds the
\* all-ones sentinel followed by the value.
C18_BackPatchExact ==
    (last.op = "write_fst" /\ ~panicked) =>
        \A i \in 1..Len(Written.log) :
            LET e == Written.log[i]
                k == OffsetKind(data, e.off)
            IN  /\ e.clobber = {}
                /\ e.node.body.tag = "Children" =>
                     /\ k.kind = "Offset"
                     /\ k.off > e.off
                     /\ \E j \in (i + 1)..Len(Written.log) :
                          /\ Written.log[j].off = k.off
                          /\ Written.log[j].parent = e.parent \o e.node.key
                          /\ Written.log[j].node = e.node.body.children[1]
                /\ e.node.body.tag = "Value" =>
                     /\ k.kind = "Terminating"
                     /\ BytesAt(data, e.off + NodeOffsetSize, width)
                          = LeBytes(e.node.body.value, width)

\* C19: in the bytes write_fst emits the children of every node are one
\* contiguous run of records in child order, without a blank entry inside;
\* every run is directly followed by exactly one blank entry, and the bytes
\* end with the blank entry after the last run.
C19_RunsTerminated ==
    (last.op = "write_fst" /\ ~panicked) =>
        LET log == Written.log
            n == Len(log)
        IN  /\ \A nd \in NodesOf(root) :
                 LET cs == nd.body.children
                 IN  cs # << >> =>
                       \E s \in 1..(n - Len(cs) + 1) :
                          /\ \A j \in 1..Len(cs) : log[s + j - 1].node = cs[j]
                          /\ \A j \in 2..Len(cs) :
                               /\ log[s + j - 1].blank = -1
                               /\ log[s + j - 1].off = log[s + j - 2].end
                          /\ s > 1 => log[s].blank # -1
                          /\ IF s + Len(cs) - 1 = n
                             THEN Written.last = log[n].end
                             ELSE /\ log[s + Len(cs)].blank = log[s + Len(cs) - 1].end
                                  /\ log[s + Len(cs)].off
                                       = log[s + Len(cs)].blank + NODE_SIZE(width)
            /\ Len(data) = Written.last + NODE_SIZE(width)
            /\ BytesAt(data, Written.last, NODE_SIZE(width)) = Zeros(NODE_SIZE(width))

\* C20: in every trie reachable by inserts, the empty key included, a node
\* has at most one child with an empty fragment; that child has a Value
\* body and is the last of the child list; a Value node has no children.
C20_MarkerInvariant ==
    \A nd \in NodesOf(root) :
        LET cs == nd.body.children
        IN  /\ Cardinality({j \in 1..Len(cs) : cs[j].key = << >>}) <= 1
            /\ \A j \in 1..Len(cs) :
                 cs[j].key = << >> => (cs[j].body.tag = "Value" /\ j = Len(cs))
            /\ nd.body.tag = "Value" => cs = << >>

\* C21: in a trie built from non-empty keys only, an insert of a non-empty
\* key that completes changes the result of get for that key only: for
\* every other key get returns after the call what it returned before.
C21_InsertFrame ==
    [][(/\ hist[<< >>] = 0
        /\ ninserts' = ninserts + 1
        /\ last'.key # << >>
        /\ ~panicked')
       => \A k \in ProbeKeys \ {last'.key} : get(root', k) = get(root, k)]_vars

\* C21 witness: a completed insert of a new non-empty key has split a child
\* of the root, which is now an interior node above that key, and another
\* stored key is still found with its value.
C21_Witness ==
    /\ last.op = "insert" /\ last.res.tag = "Some" /\ last.had = None
    /\ last.key # << >> /\ hist[<< >>] = 0
    /\ \E j \in 1..Len(root.body.children) :
         LET c == root.body.children[j]
         IN  /\ c.body.tag = "Children"
             /\ c.key # << >>
             /\ Len(c.key) <= Len(last.key)
             /\ c.key = SliceTo(last.key, Len(c.key))
    /\ \E k \in Keys \ {last.key} : hist[k] # 0 /\ get(root, k) = Some(hist[k])

====
